---- MODULE Spec2Model ----
(***************************************************************************)
(* Model of the two HuggingFace cleanup commands:                          *)
(*   scripts/cleanup-huggingface-repo.py        (cmd = "single")           *)
(*   scripts/delete-all-huggingface-models.py   (cmd = "bulk")             *)
(* A run is one process invocation.  Strings are sequences of one-         *)
(* character strings, so that '/' tests, split, lower(), substring search  *)
(* and f-string formatting are computed as the code computes them.         *)
(* The remote registry and the operator are the environment: the result    *)
(* of a list call, the outcome of a delete call and the line typed at the  *)
(* prompt are chosen nondeterministically.                                 *)
(***************************************************************************)
EXTENDS Integers, Sequences, FiniteSets, TLC

\* ---------------------------------------------------------------- bounds
\* Longest listing the remote service returns in the model.
MaxModels == 2
\* Most command-line arguments given to the single-repository command.
MaxArgs == 2

\* ------------------------------------------------------- string helpers
\* Python: c in s
HasChar(s, c) == \E i \in 1..Len(s) : s[i] = c

\* Python: p in s   (plain substring test)
Contains(s, p) ==
    \E i \in 0..(Len(s) - Len(p)) : SubSeq(s, i + 1, i + Len(p)) = p

\* Python: str.lower(), on the ASCII letters the model uses
LowerChar(c) ==
    CASE c = "A" -> "a"
      [] c = "B" -> "b"
      [] c = "C" -> "c"
      [] c = "D" -> "d"
      [] c = "E" -> "e"
      [] c = "L" -> "l"
      [] c = "M" -> "m"
      [] c = "O" -> "o"
      [] c = "S" -> "s"
      [] c = "T" -> "t"
      [] OTHER -> c

Lower(s) == [i \in 1..Len(s) |-> LowerChar(s[i])]

\* Python: s.split('/')[-1]  -- the part after the last '/', or all of s
LastSegment(s) ==
    LET slashes == {i \in 1..Len(s) : s[i] = "/"}
    IN  IF slashes = {} THEN s
        ELSE LET last == CHOOSE i \in slashes : \A j \in slashes : j <= i
             IN  SubSeq(s, last + 1, Len(s))

\* Python: the decimal text of a non-negative int inside an f-string
DigitChar(d) == <<"0", "1", "2", "3", "4", "5", "6", "7", "8", "9">>[d + 1]

RECURSIVE IntToStr(_)
IntToStr(n) ==
    IF n < 10 THEN <<DigitChar(n)>>
    ELSE IntToStr(n \div 10) \o <<DigitChar(n % 10)>>

\* ------------------------------------------------------------ the inputs
ListFlags == { <<"-", "-", "l", "i", "s", "t">>, <<"-", "l">> }

\* Command-line words of the single-repository command.
ArgWords == ListFlags \cup { <<"m">>, <<"b", "/", "m">> }

RECURSIVE SeqsUpTo(_, _)
SeqsUpTo(S, n) ==
    IF n = 0 THEN { <<>> }
    ELSE LET shorter == SeqsUpTo(S, n - 1)
         IN  shorter \cup { Append(s, x) : s \in {t \in shorter : Len(t) = n - 1}, x \in S }

\* Environments: each variable unset, set to the empty string, or set.
EnvNames == {"HUGGINGFACE_API_TOKEN", "HUGGINGFACE_USERNAME"}
EnvValue(name) == IF name = "HUGGINGFACE_API_TOKEN" THEN <<"t">> ELSE <<"a">>
Environments ==
    UNION { { [n \in names |-> IF n \in empties THEN <<>> ELSE EnvValue(n)] :
                empties \in SUBSET names } : names \in SUBSET EnvNames }

\* Model ids the remote listing can hold: same account, differently cased,
\* another account prefix, no account prefix.
ModelIds ==
    { <<"a", "/", "a", "b">>, <<"a", "/", "A", "B", "-", "c">>, <<"a", "/", "b">>,
      <<"b", "/", "a", "b">>, <<"c">> }

Listings == { s \in SeqsUpTo(ModelIds, MaxModels) : \A i, j \in 1..Len(s) : s[i] = s[j] => i = j }

\* --pattern values
Patterns == { <<>>, <<"a">>, <<"A", "B">>, <<"b">>, <<"a", "/">>, <<"z">> }

\* argparse namespaces: --pattern absent (None) or given with a value
BulkArgs ==
    { a \in [all : BOOLEAN, list : BOOLEAN, dry_run : BOOLEAN,
              pattern_given : BOOLEAN, pattern : Patterns] :
        a.pattern_given \/ a.pattern = <<>> }

NoBulkArgs == [all |-> FALSE, list |-> FALSE, dry_run |-> FALSE, pattern_given |-> FALSE, pattern |-> <<>>]

\* ------------------------------------------------------------- the state
VARIABLES
    cmd,              \* "single" or "bulk": which script runs
    argv,             \* sys.argv[1:] of the single-repository command
    args,             \* argparse namespace of the bulk command
    env,              \* the process environment after load_dotenv
    pc,               \* where the process is
    all_models,       \* main: all_models
    models_to_delete, \* main: models_to_delete
    idx,              \* position of the deletion loop in models_to_delete
    success_count,    \* main: success_count
    fail_count,       \* main: fail_count
    response,         \* the lines read from standard input, <<>> or <<line>>
    calls,            \* remote calls issued so far, with their outcome
    out,              \* kinds of the messages printed so far
    printed,          \* repository names printed in listings, in order
    exit              \* <<>> while the process runs, then <<exit status>>

vars == <<cmd, argv, args, env, pc, all_models, models_to_delete, idx,
          success_count, fail_count, response, calls, out, printed, exit>>

\* os.getenv(name) is truthy: set and not empty
EnvSet(name) == name \in DOMAIN env /\ env[name] # <<>>

api_token == env["HUGGINGFACE_API_TOKEN"]
username == env["HUGGINGFACE_USERNAME"]

ListCall(author, ok) == [op |-> "list", arg |-> author, ok |-> ok]
DeleteCall(repo_id, ok) == [op |-> "delete", arg |-> repo_id, ok |-> ok]

Init ==
    /\ cmd \in {"single", "bulk"}
    /\ argv \in (IF cmd = "single" THEN SeqsUpTo(ArgWords, MaxArgs) ELSE { <<>> })
    /\ args \in (IF cmd = "bulk" THEN BulkArgs ELSE { NoBulkArgs })
    /\ env \in Environments
    /\ pc = "start"
    /\ all_models = <<>>
    /\ models_to_delete = <<>>
    /\ idx = 0
    /\ success_count = 0
    /\ fail_count = 0
    /\ response = <<>>
    /\ calls = <<>>
    /\ out = <<>>
    /\ printed = <<>>
    /\ exit = <<>>

\* sys.exit(status), or falling off the end of the script (status 0)
Exit(status, messages) ==
    /\ pc' = "done"
    /\ exit' = <<status>>
    /\ out' = out \o messages

\* ------------------------------------- the single-repository command
\* A normalization that prefixes the account whatever the name holds.
FullRepoNameAlwaysPrefixed(repo_name, account) == account \o <<"/">> \o repo_name

\* delete_huggingface_repo: "Add username if not in repo name"
FullRepoName(repo_name, account) ==
    IF ~HasChar(repo_name, "/") THEN account \o <<"/">> \o repo_name
    ELSE repo_name

\* __main__: the list flag is looked for in sys.argv[1] only
IsListMode(av) == Len(av) > 0 /\ av[1] \in ListFlags

\* An except branch that reports a failed listing as an empty account.
ListErrorReportAsEmpty(hint) == <<"no_repos_found">>

\* list_repos, except branch: what is printed when listing raised; the
\* remediation hint is printed when the error text names an environment variable
ListErrorReport(hint) ==
    <<"error_listing">> \o (IF hint THEN <<"env_hint">> ELSE <<>>)

\* list_repos, after a successful listing call
ListReport(repos) ==
    IF Len(repos) = 0 THEN <<"no_repos_found">>
    ELSE <<"found", "how_to_delete">>

\* __main__, then list_repos / cleanup_repo up to their remote call.  Both
\* credential checks raise ValueError; list_repos catches it and returns,
\* cleanup_repo catches it and calls sys.exit(1).
SingleMain ==
    /\ cmd = "single"
    /\ pc = "start"
    /\ IF IsListMode(argv)
       THEN IF ~EnvSet("HUGGINGFACE_API_TOKEN") \/ ~EnvSet("HUGGINGFACE_USERNAME")
            THEN Exit(0, <<"listing">> \o ListErrorReport(TRUE))
            ELSE /\ pc' = "list_call"
                 /\ out' = out \o <<"listing">>
                 /\ UNCHANGED exit
       ELSE IF Len(argv) < 1
            THEN Exit(1, <<"usage">>)
            ELSE IF ~EnvSet("HUGGINGFACE_API_TOKEN") \/ ~EnvSet("HUGGINGFACE_USERNAME")
                 THEN Exit(1, <<"error_cleanup", "env_hint">>)
                 ELSE /\ pc' = "delete_call"
                      /\ out' = out \o <<"attempting">>
                      /\ UNCHANGED exit
    /\ UNCHANGED <<cmd, argv, args, env, all_models, models_to_delete, idx,
                   success_count, fail_count, response, calls, printed>>

\* list_huggingface_repos: the remote listing call, and the rest of list_repos
SingleList ==
    /\ cmd = "single"
    /\ pc = "list_call"
    /\ \/ \E hint \in BOOLEAN :
            /\ calls' = Append(calls, ListCall(username, FALSE))
            /\ Exit(0, ListErrorReport(hint))
            /\ UNCHANGED printed
       \/ \E listing \in Listings :
            /\ calls' = Append(calls, ListCall(username, TRUE))
            /\ Exit(0, ListReport(listing))
            /\ printed' = listing
    /\ UNCHANGED <<cmd, argv, args, env, all_models, models_to_delete, idx,
                   success_count, fail_count, response>>

\* delete_huggingface_repo: the remote delete call, and the rest of cleanup_repo
SingleDelete ==
    /\ cmd = "single"
    /\ pc = "delete_call"
    /\ \E ok \in BOOLEAN :
            /\ calls' = Append(calls, DeleteCall(FullRepoName(argv[1], username), ok))
            /\ Exit(0, IF ok THEN <<"success">> ELSE <<"failed">>)
    /\ UNCHANGED <<cmd, argv, args, env, all_models, models_to_delete, idx,
                   success_count, fail_count, response, printed>>

\* --------------------------------------------------- the bulk command
\* main: any([args.all, args.pattern, args.list, args.dry_run])
AnyAction(a) == a.all \/ (a.pattern_given /\ a.pattern # <<>>) \/ a.list \/ a.dry_run

\* main, confirm_deletion: "if args.pattern" / "if pattern" (None and '' are falsy)
PatternSupplied(a) == a.pattern_given /\ a.pattern # <<>>

\* get_all_user_models: [(model.id, model.id.split('/')[-1]) for model in models]
GetAllUserModels(ids) ==
    [i \in 1..Len(ids) |-> [full_name |-> ids[i], short_name |-> LastSegment(ids[i])]]

FullNames(models) == [i \in 1..Len(models) |-> models[i].full_name]

\* A filter that compares case as given.
FilterCaseSensitive(models, pattern) ==
    LET Keep(m) == Contains(m.short_name, pattern)
    IN  SelectSeq(models, Keep)

\* main: the list comprehension filtering all_models by args.pattern
FilterByPattern(models, pattern) ==
    LET Keep(m) == Contains(Lower(m.short_name), Lower(pattern))
    IN  SelectSeq(models, Keep)

\* A run that does not look at --dry-run.
DryRunIgnored(a) == FALSE

\* main: "if args.dry_run"
DryRunMode(a) == a.dry_run

\* confirm_deletion: f"DELETE {len(models)} MODELS"
ConfirmationPhrase(n) ==
    <<"D", "E", "L", "E", "T", "E", " ">> \o IntToStr(n) \o <<" ", "M", "O", "D", "E", "L", "S">>

\* A confirmation that compares without regard to case.
ConfirmIgnoringCase(models, line) == Lower(line) = Lower(ConfirmationPhrase(Len(models)))

\* confirm_deletion: return response == f"DELETE {len(models)} MODELS"
ConfirmDeletion(models, line) == line = ConfirmationPhrase(Len(models))

\* delete_huggingface_repo (bulk): full_repo_name
BulkFullRepoName(repo_name, account) ==
    IF ~HasChar(repo_name, "/") THEN account \o <<"/">> \o repo_name
    ELSE repo_name

\* A tally that drops failures.
TallySuccessOnly(ok, success, fail) ==
    [success |-> IF ok THEN success + 1 ELSE success, fail |-> fail]

\* main, deletion loop: success_count += 1 / fail_count += 1
Tally(ok, success, fail) ==
    [success |-> IF ok THEN success + 1 ELSE success,
     fail |-> IF ok THEN fail ELSE fail + 1]

\* Lines the operator may type at the prompt: the phrase for several counts,
\* and near misses of each.
Responses ==
    LET phrases == { ConfirmationPhrase(k) : k \in 0..(MaxModels + 1) }
    IN  phrases \cup { Lower(ph) : ph \in phrases }
                \cup { ph \o <<" ">> : ph \in phrases }
                \cup { <<>>, <<"y">> }

\* main up to the listing call: usage check and credential checks
BulkMain ==
    /\ cmd = "bulk"
    /\ pc = "start"
    /\ IF ~AnyAction(args)
       THEN Exit(1, <<"usage">>)
       ELSE IF ~EnvSet("HUGGINGFACE_API_TOKEN")
            THEN Exit(1, <<"token_required">>)
            ELSE IF ~EnvSet("HUGGINGFACE_USERNAME")
                 THEN Exit(1, <<"username_required">>)
                 ELSE /\ pc' = "fetch"
                      /\ out' = out \o <<"fetching">>
                      /\ UNCHANGED exit
    /\ UNCHANGED <<cmd, argv, args, env, all_models, models_to_delete, idx,
                   success_count, fail_count, response, calls, printed>>

\* get_all_user_models and main down to the input() of confirm_deletion
BulkFetch ==
    /\ cmd = "bulk"
    /\ pc = "fetch"
    /\ \E ok \in BOOLEAN, listing \in Listings :
        /\ ok \/ listing = <<>>
        /\ LET fetched == IF ok THEN GetAllUserModels(listing) ELSE <<>>
               selected == IF PatternSupplied(args)
                           THEN FilterByPattern(fetched, args.pattern)
                           ELSE fetched
               fetchMsg == IF ok THEN <<>> ELSE <<"error_fetching">>
               matchMsg == IF PatternSupplied(args) THEN <<"found_matching">> ELSE <<>>
           IN  /\ calls' = Append(calls, ListCall(username, ok))
               /\ all_models' = fetched
               /\ IF fetched = <<>>
                  THEN /\ Exit(0, fetchMsg \o <<"no_models">>)
                       /\ UNCHANGED <<models_to_delete, printed>>
                  ELSE IF args.list
                  THEN /\ Exit(0, <<"found">>)
                       /\ printed' = FullNames(fetched)
                       /\ UNCHANGED models_to_delete
                  ELSE /\ models_to_delete' = selected
                       /\ IF selected = <<>>
                          THEN /\ Exit(0, matchMsg \o <<"no_match">>)
                               /\ UNCHANGED printed
                          ELSE IF DryRunMode(args)
                          THEN /\ Exit(0, matchMsg \o <<"dry_run">>)
                               /\ printed' = FullNames(selected)
                          ELSE /\ pc' = "confirm"
                               /\ out' = out \o matchMsg \o <<"warning", "prompt">>
                               /\ printed' = FullNames(selected)
                               /\ UNCHANGED exit
    /\ UNCHANGED <<cmd, argv, args, env, idx, success_count, fail_count, response>>

\* confirm_deletion: input() and the comparison; main: cancel or start the loop.
\* End of input raises EOFError, which nothing catches: traceback, status 1.
BulkConfirm ==
    /\ cmd = "bulk"
    /\ pc = "confirm"
    /\ \/ /\ Exit(1, <<"traceback">>)
          /\ UNCHANGED <<response, idx>>
       \/ \E line \in Responses :
            /\ response' = <<line>>
            /\ IF ConfirmDeletion(models_to_delete, line)
               THEN /\ pc' = "delete"
                    /\ idx' = 1
                    /\ out' = out \o <<"starting">>
                    /\ UNCHANGED exit
               ELSE /\ Exit(0, <<"cancelled">>)
                    /\ UNCHANGED idx
    /\ UNCHANGED <<cmd, argv, args, env, all_models, models_to_delete,
                   success_count, fail_count, calls, printed>>

\* One iteration of the deletion loop; after the last one, the summary and
\* the end of main.
BulkDelete ==
    /\ cmd = "bulk"
    /\ pc = "delete"
    /\ idx <= Len(models_to_delete)
    /\ \E ok \in BOOLEAN :
        LET target == BulkFullRepoName(models_to_delete[idx].short_name, username)
            tally == Tally(ok, success_count, fail_count)
            report == IF ok THEN <<"deleted">> ELSE <<"delete_failed">>
        IN  /\ calls' = Append(calls, DeleteCall(target, ok))
            /\ success_count' = tally.success
            /\ fail_count' = tally.fail
            /\ idx' = idx + 1
            /\ IF idx = Len(models_to_delete)
               THEN Exit(0, report \o <<"summary">>)
               ELSE /\ out' = out \o report
                    /\ UNCHANGED <<pc, exit>>
    /\ UNCHANGED <<cmd, argv, args, env, all_models, models_to_delete,
                   response, printed>>

Next ==
    \/ SingleMain
    \/ SingleList
    \/ SingleDelete
    \/ BulkMain
    \/ BulkFetch
    \/ BulkConfirm
    \/ BulkDelete

Spec == Init /\ [][Next]_vars

\* ------------------------------------------------------------ properties
IsDelete(c) == c.op = "delete"
IsList(c) == c.op = "list"
Succeeded(c) == c.ok
Failed(c) == ~c.ok

DeleteCalls == SelectSeq(calls, IsDelete)
ListCalls == SelectSeq(calls, IsList)

Has(msg) == \E i \in 1..Len(out) : out[i] = msg

CredentialsMissing ==
    ~EnvSet("HUGGINGFACE_API_TOKEN") \/ ~EnvSet("HUGGINGFACE_USERNAME")

\* The short name of a qualified name, stated without split: the longest
\* suffix holding no '/'.
ShortOf(full) ==
    LET k == CHOOSE n \in 0..Len(full) :
                 /\ \A i \in (Len(full) - n + 1)..Len(full) : full[i] # "/"
                 /\ n = Len(full) \/ full[Len(full) - n] = "/"
    IN  SubSeq(full, Len(full) - k + 1, Len(full))

\* p occurs in s as a substring, letters compared without regard to case
OccursIgnoringCase(s, p) ==
    \E off \in 0..(Len(s) - Len(p)) :
        \A k \in 1..Len(p) : LowerChar(s[off + k]) = LowerChar(p[k])

\* C1: in the bulk command the prompt is reached only with a non-empty
\* selection and without --list and --dry-run; a line read at the prompt that
\* differs from 'DELETE N MODELS' (N the selection size) ends the run with a
\* cancellation, exit status 0 and no delete call; and delete calls exist only
\* after exactly that phrase was read.
C1_ConfirmationGuardsDeletion ==
    cmd = "bulk" =>
        /\ Has("prompt") =>
              ~args.list /\ ~args.dry_run /\ Len(models_to_delete) > 0
        /\ response # <<>> => Has("prompt")
        /\ (response # <<>> /\ response[1] # ConfirmationPhrase(Len(models_to_delete))) =>
              /\ pc = "done"
              /\ exit = <<0>>
              /\ Has("cancelled")
              /\ DeleteCalls = <<>>
        /\ DeleteCalls # <<>> =>
              response = <<ConfirmationPhrase(Len(models_to_delete))>>

\* C1 witness: two models selected, the operator typed the phrase in lower
\* case, the run was cancelled.
C1_Witness ==
    /\ cmd = "bulk"
    /\ Len(models_to_delete) = 2
    /\ response = << <<"d", "e", "l", "e", "t", "e", " ", "2", " ", "m", "o", "d", "e", "l", "s">> >>
    /\ exit = <<0>>
    /\ Has("cancelled")

\* C2: with --dry-run the bulk command never prompts, never reads a
\* confirmation and never issues a delete call; with a non-empty selection
\* (no --list) it prints exactly the selected entries and exits with status 0.
C2_DryRunNeverDeletes ==
    (cmd = "bulk" /\ args.dry_run) =>
        /\ DeleteCalls = <<>>
        /\ ~Has("prompt")
        /\ response = <<>>
        /\ (~args.list /\ models_to_delete # <<>>) =>
              /\ pc = "done"
              /\ exit = <<0>>
              /\ Has("dry_run")
              /\ printed = FullNames(models_to_delete)

\* C2 witness: --dry-run with --all and --pattern, a proper non-empty
\* selection printed, exit status 0.
C2_Witness ==
    /\ cmd = "bulk"
    /\ args.dry_run /\ args.all /\ PatternSupplied(args) /\ ~args.list
    /\ Len(models_to_delete) > 0
    /\ Len(models_to_delete) < Len(all_models)
    /\ printed = FullNames(models_to_delete)
    /\ exit = <<0>>

\* C3 (as claimed): list mode never deletes.  A single-repository run with
\* --list or -l among its arguments issues no delete call; a bulk run with
\* --list issues no delete call and, once past the credential check, exits 0.
C3_ListModeNeverDeletes ==
    /\ (cmd = "single" /\ \E i \in 1..Len(argv) : argv[i] \in ListFlags) =>
          DeleteCalls = <<>>
    /\ (cmd = "bulk" /\ args.list) =>
          /\ DeleteCalls = <<>>
          /\ (pc = "done" /\ ~CredentialsMissing) => exit = <<0>>

\* C4: in the bulk deletion loop the i-th delete call is the attempt for the
\* i-th selected entry; the counters count the successful and the failed
\* calls, so success_count + fail_count is the number of attempts so far; a
\* failed attempt does not end the loop; a confirmed run ends only with the
\* summary, and then every selected entry was attempted exactly once.
C4_EveryItemAttempted ==
    cmd = "bulk" =>
        /\ success_count + fail_count = Len(DeleteCalls)
        /\ success_count = Len(SelectSeq(DeleteCalls, Succeeded))
        /\ fail_count = Len(SelectSeq(DeleteCalls, Failed))
        /\ Len(DeleteCalls) <= Len(models_to_delete)
        /\ \A i \in 1..Len(DeleteCalls) :
              DeleteCalls[i].arg = username \o <<"/">> \o ShortOf(models_to_delete[i].full_name)
        /\ pc = "delete" =>
              /\ idx = Len(DeleteCalls) + 1
              /\ idx <= Len(models_to_delete)
        /\ (pc = "done" /\ Has("starting")) =>
              /\ Has("summary")
              /\ exit = <<0>>
              /\ Len(DeleteCalls) = Len(models_to_delete)
              /\ success_count + fail_count = Len(models_to_delete)

\* C4 witness: two selected, the first delete failed, the second was still
\* attempted and succeeded, the summary was printed.
C4_Witness ==
    /\ cmd = "bulk"
    /\ Has("summary")
    /\ Len(models_to_delete) = 2
    /\ Len(DeleteCalls) = 2
    /\ ~DeleteCalls[1].ok
    /\ DeleteCalls[2].ok
    /\ success_count = 1
    /\ fail_count = 1

\* C5 (as claimed): with the token or the account identifier unset or empty,
\* no remote call is ever issued and the process ends with a non-zero status.
C5_MissingCredentialsFailFast ==
    CredentialsMissing =>
        /\ calls = <<>>
        /\ pc = "done" => (exit # <<>> /\ exit # <<0>>)

\* C6: every delete call targets the normalized name of the name handed to
\* delete_huggingface_repo: account/name when the name holds no '/', the
\* name itself when it holds one; the target always holds a '/', so
\* normalizing it again changes nothing.
C6_DeleteTargetsNormalizedName ==
    \A i \in 1..Len(DeleteCalls) :
        LET name == IF cmd = "single" THEN argv[1] ELSE models_to_delete[i].short_name
            target == DeleteCalls[i].arg
        IN  /\ (\A k \in 1..Len(name) : name[k] # "/") =>
                  target = env["HUGGINGFACE_USERNAME"] \o <<"/">> \o name
            /\ (\E k \in 1..Len(name) : name[k] = "/") => target = name
            /\ \E k \in 1..Len(target) : target[k] = "/"

\* C6 witness: both shapes of name were deleted by the single command: this
\* one is a qualified name under another account, passed through unchanged.
C6_Witness ==
    /\ cmd = "single"
    /\ Len(argv) >= 1
    /\ argv[1] = <<"b", "/", "m">>
    /\ DeleteCalls # <<>>
    /\ DeleteCalls[1].arg = <<"b", "/", "m">>

\* C7 (as claimed): the single-repository command exits 1 exactly when the
\* credentials are missing or no argument was given, 0 otherwise; with
\* credentials and a name it issues exactly one delete call and exits 0.
C7_SingleExitStatus ==
    (cmd = "single" /\ pc = "done") =>
        /\ exit = <<1>> <=> (CredentialsMissing \/ Len(argv) = 0)
        /\ exit # <<1>> => exit = <<0>>
        /\ (~CredentialsMissing /\ Len(argv) > 0 /\ ~IsListMode(argv)) =>
              /\ Len(DeleteCalls) = 1
              /\ Len(calls) = 1
              /\ exit = <<0>>

\* C8: with a pattern supplied (and no --list), the selection is the
\* subsequence of the fetched listing whose short name, the part after the
\* last '/', holds the pattern as a substring without regard to case; with
\* no match the run reports it and exits 0 without prompt or delete call.
C8_PatternSelectsMatchingSubsequence ==
    (cmd = "bulk" /\ Has("found_matching")) =>
        /\ LET Matches(m) == OccursIgnoringCase(ShortOf(m.full_name), args.pattern)
           IN  models_to_delete = SelectSeq(all_models, Matches)
        /\ models_to_delete = <<>> =>
              /\ pc = "done"
              /\ exit = <<0>>
              /\ Has("no_match")
              /\ ~Has("prompt")
              /\ response = <<>>
              /\ DeleteCalls = <<>>

\* C8 witness: pattern 'AB' selected a/ab, whose case differs, and dropped
\* another fetched entry.
C8_Witness ==
    /\ cmd = "bulk"
    /\ Has("found_matching")
    /\ args.pattern = <<"A", "B">>
    /\ Len(all_models) = 2
    /\ FullNames(models_to_delete) = << <<"a", "/", "a", "b">> >>

\* C9 (as claimed): in the single command's list path a failed listing call
\* is reported like an empty account: 'no repositories found', no delete
\* call, exit status 0.
C9_ListFailureLooksEmpty ==
    (cmd = "single" /\ ListCalls # <<>> /\ (~ListCalls[1].ok \/ printed = <<>>)) =>
        /\ Has("no_repos_found")
        /\ DeleteCalls = <<>>
        /\ exit = <<0>>

\* C9 (amended): in the single command's list path a failed listing call is
\* reported as an error listing repositories, and an empty account as 'no
\* repositories found'; the two reports differ; in both cases there is no
\* delete call and the exit status is 0.
C9_ListFailureReportedAsError ==
    (cmd = "single" /\ ListCalls # <<>>) =>
        /\ pc = "done"
        /\ exit = <<0>>
        /\ DeleteCalls = <<>>
        /\ ~ListCalls[1].ok =>
              (Has("error_listing") /\ ~Has("no_repos_found"))
        /\ (ListCalls[1].ok /\ printed = <<>>) =>
              (Has("no_repos_found") /\ ~Has("error_listing"))

\* C9 witness: the listing call of the single command failed and the run
\* ended with status 0.
C9_Witness ==
    /\ cmd = "single"
    /\ ListCalls # <<>>
    /\ ~ListCalls[1].ok
    /\ Has("error_listing")
    /\ exit = <<0>>

\* C10 (as claimed): the i-th delete call of the bulk command targets the
\* qualified name of the i-th selected entry, the name shown at the prompt.
C10_DeleteTargetsConfirmedSet ==
    cmd = "bulk" =>
        \A i \in 1..Len(DeleteCalls) :
            /\ DeleteCalls[i].arg = models_to_delete[i].full_name
            /\ DeleteCalls[i].arg = printed[i]

====
